---- MODULE Spec2Model ----
(***************************************************************************)
(* Patient Record Management API (src/main.py).                            *)
(*                                                                         *)
(* The persisted collection (patients.json) is a JSON object; json.load    *)
(* gives a Python dict, which keeps insertion order, so the collection is  *)
(* a sequence of entries [id, rec] with pairwise distinct ids.             *)
(*                                                                         *)
(* Numbers are fixed point: height is in centimetres (metres * 100),       *)
(* weight in kilograms, bmi in hundredths (bmi * 100).  The sampled        *)
(* heights avoid the values whose exact quotient weight / height^2 lies    *)
(* on a rounding tie (1.60 m), where binary floating point and exact       *)
(* arithmetic part ways.                                                   *)
(*                                                                         *)
(* A gender is a sequence of one-letter strings, so that str.lower() is a  *)
(* computation on letters.                                                 *)
(***************************************************************************)
EXTENDS Integers, Sequences, FiniteSets, TLC

VARIABLES
    file,       \* contents of patients.json: sequence of [id, rec]
    request,    \* the request handled by the last step (sequential runs)
    resp,       \* the response to that request
    pc,         \* concurrent runs: position of each worker in its handler
    req,        \* concurrent runs: the request each worker is handling
    data,       \* concurrent runs: the dict each worker got from load_data()
    out,        \* concurrent runs: the response each worker returned
    racedWith   \* concurrent runs: workers that had loaded when this one saved

vars == <<file, request, resp, pc, req, data, out, racedWith>>

\* The keys of the requests, the stored records, the collection's entries,
\* the responses and the handlers' outcomes.  TLC orders the fields of a
\* record by the first occurrence of their names in the module; every
\* constructor below lists them in this order.
Keys ==
    [op |-> "request", id |-> "request, Patient, entry", body |-> "request",
     sort_by |-> "request", order |-> "request",
     name |-> "Patient", city |-> "Patient", age |-> "Patient", gender |-> "Patient",
     height |-> "Patient", weight |-> "Patient", bmi |-> "Patient", verdict |-> "Patient",
     rec |-> "entry",
     status |-> "response", message |-> "response", records |-> "response",
     save |-> "outcome"]

\* ------------------------------------------------------------------ bounds
\* number of sampled valid weights
NumWeights == 2
\* longest collection the read-only specifications start from
MaxSortLen == 3
\* number of sampled weights for the derived-field specification
NumBmiWeights == 60

\* ------------------------------------------------------------- value sets
Ids == {"", "P001"}
Heights == {170, 200}
Weights == {72 + 8 * i : i \in 0 .. (NumWeights - 1)}

Male == <<"M", "a", "l", "e">>
Female == <<"F", "e", "m", "a", "l", "e">>
Other == <<"O", "t", "h", "e", "r">>
male == <<"m", "a", "l", "e">>
female == <<"f", "e", "m", "a", "l", "e">>
other == <<"o", "t", "h", "e", "r">>
MALE == <<"M", "A", "L", "E">>
robot == <<"r", "o", "b", "o", "t">>

\* ------------------------------------------------------------ str helpers
UpperLetters == <<"A", "B", "C", "D", "E", "F", "G", "H", "I", "J", "K", "L", "M",
                  "N", "O", "P", "Q", "R", "S", "T", "U", "V", "W", "X", "Y", "Z">>
LowerLetters == <<"a", "b", "c", "d", "e", "f", "g", "h", "i", "j", "k", "l", "m",
                  "n", "o", "p", "q", "r", "s", "t", "u", "v", "w", "x", "y", "z">>

\* str.lower() on one letter
LowerChar(c) ==
    IF \E i \in 1 .. 26 : UpperLetters[i] = c
    THEN LowerLetters[CHOOSE i \in 1 .. 26 : UpperLetters[i] = c]
    ELSE c

\* Patient.transform_name: value.lower()
transform_name(value) == [i \in 1 .. Len(value) |-> LowerChar(value[i])]

\* Literal['Male', 'Female', 'Other'] of Patient.gender and PatientUpdate.gender
GenderLiteral == {Male, Female, Other}

\* ---------------------------------------------------------- derived fields
\* round(num / den, 0) for positive integers, ties to even (Python's round)
RoundHalfEven(num, den) ==
    LET q == num \div den
        r == num % den
    IN  IF 2 * r < den THEN q
        ELSE IF 2 * r > den THEN q + 1
        ELSE IF q % 2 = 0 THEN q ELSE q + 1

\* Patient.bmi: round(weight / height ** 2, 2), in hundredths
bmi(height, weight) == RoundHalfEven(weight * 1000000, height * height)

\* verdict with the gap between 24.9 and 25 closed
verdict_closed(b) ==
    IF b < 1850 THEN "Underweight"
    ELSE IF 1850 <= b /\ b < 2500 THEN "Normal weight"
    ELSE IF 2500 <= b /\ b < 2990 THEN "Overweight"
    ELSE "Obesity"

\* Patient.verdict
verdict(b) ==
    IF b < 1850 THEN "Underweight"
    ELSE IF 1850 <= b /\ b < 2490 THEN "Normal weight"
    ELSE IF 2500 <= b /\ b < 2990 THEN "Overweight"
    ELSE "Obesity"

\* ------------------------------------------------------------- the models
PatientFields == {"id", "name", "city", "age", "gender", "height", "weight"}
UpdateFields == {"name", "city", "age", "gender", "height", "weight"}

\* FieldOk with the age bound off by one (ge=0 for gt=0)
FieldOk_ge(k, v) ==
    CASE k = "age" -> v >= 0 /\ v < 150
      [] k = "gender" -> v \in GenderLiteral
      [] k = "height" -> v > 0
      [] k = "weight" -> v > 0
      [] OTHER -> TRUE

\* the per-field constraints shared by Patient and PatientUpdate
FieldOk(k, v) ==
    CASE k = "age" -> v > 0 /\ v < 150
      [] k = "gender" -> v \in GenderLiteral
      [] k = "height" -> v > 0
      [] k = "weight" -> v > 0
      [] OTHER -> TRUE

\* Patient(**kw) validates: every field is required, each meets its
\* constraint; keys that are no field of the model are ignored
PatientValid(kw) ==
    /\ PatientFields \subseteq DOMAIN kw
    /\ \A k \in PatientFields : FieldOk(k, kw[k])

\* Patient without the field validator
Patient_as_sent(kw) == [k \in PatientFields |-> kw[k]]

\* the validated model: the fields only, gender through the field validator
Patient(kw) ==
    [k \in PatientFields |-> IF k = "gender" THEN transform_name(kw[k]) ELSE kw[k]]

\* patient.model_dump(exclude=['id']): the fields but id, and the two
\* computed fields
model_dump(p) ==
    [k \in (PatientFields \ {"id"}) \cup {"bmi", "verdict"} |->
        CASE k = "bmi" -> bmi(p.height, p.weight)
          [] k = "verdict" -> verdict(bmi(p.height, p.weight))
          [] OTHER -> p[k]]

\* PatientUpdate(**body) validates: every field optional, constraints on
\* the supplied ones
PatientUpdateValid(body) ==
    \A k \in DOMAIN body \cap UpdateFields : FieldOk(k, body[k])

\* patient_update.model_dump(exclude_unset=True): the supplied fields
PatientUpdateDump(body) == [k \in DOMAIN body \cap UpdateFields |-> body[k]]

\* ------------------------------------------------------------ dict helpers
RECURSIVE SelectSeq2(_, _)
SelectSeq2(s, drop) ==
    IF s = <<>> THEN <<>>
    ELSE IF Head(s).id = drop THEN SelectSeq2(Tail(s), drop)
    ELSE <<Head(s)>> \o SelectSeq2(Tail(s), drop)

\* key in d
Has(d, id) == \E i \in 1 .. Len(d) : d[i].id = id
\* d[key]
Lookup(d, id) == d[CHOOSE i \in 1 .. Len(d) : d[i].id = id].rec
\* d[key] = rec: an existing key keeps its position, a new key goes last
Store(d, id, rec) ==
    IF Has(d, id)
    THEN [i \in 1 .. Len(d) |-> IF d[i].id = id THEN [id |-> id, rec |-> rec] ELSE d[i]]
    ELSE Append(d, [id |-> id, rec |-> rec])
\* del d[key]
Remove(d, id) == SelectSeq2(d, id)
\* d.values()
Values(d) == [i \in 1 .. Len(d) |-> d[i].rec]


\* ----------------------------------------------------------------- sorted
Reverse(s) == [i \in 1 .. Len(s) |-> s[Len(s) + 1 - i]]

\* x goes behind every element whose key is not greater than its own
RECURSIVE Insert(_, _, _)
Insert(s, x, k) ==
    IF s = <<>> THEN <<x>>
    ELSE IF Head(s)[k] <= x[k] THEN <<Head(s)>> \o Insert(Tail(s), x, k)
    ELSE <<x>> \o s

\* a stable ascending sort, as list.sort is
RECURSIVE StableSort(_, _)
StableSort(s, k) ==
    IF s = <<>> THEN <<>>
    ELSE Insert(StableSort(SubSeq(s, 1, Len(s) - 1), k), s[Len(s)], k)

\* sorted that sorts ascending and reverses the result for reverse=True
sorted_then_reversed(s, k, rev) ==
    IF rev THEN Reverse(StableSort(s, k)) ELSE StableSort(s, k)

\* sorted(values, key=lambda x: x[k], reverse=rev): with reverse the list
\* is reversed, sorted and reversed again, which keeps ties in input order
sorted(s, k, rev) ==
    IF rev THEN Reverse(StableSort(Reverse(s), k)) ELSE StableSort(s, k)

\* ---------------------------------------------------------------- handlers
\* A handler maps the loaded dict and its arguments to the response, the
\* dict as the handler leaves it in memory, and whether save_data ran.
Response(status, message, records) ==
    [status |-> status, message |-> message, records |-> records]

Result(r, d, save) == [resp |-> r, data |-> d, save |-> save]

\* a request body the framework rejects before the handler runs
Unprocessable(d) == Result(Response(422, "validation error", <<>>), d, FALSE)

\* an exception the handler does not catch
InternalError(d) == Result(Response(500, "Internal Server Error", <<>>), d, FALSE)

\* create_patient without the check for an existing id
create_patient_overwrite(d, body) ==
    IF ~PatientValid(body) THEN Unprocessable(d)
    ELSE Result(Response(201, "Patient created successfully", <<>>),
                Store(d, body.id, model_dump(Patient(body))), TRUE)

create_patient(d, body) ==
    IF ~PatientValid(body) THEN Unprocessable(d)
    ELSE IF Has(d, body.id)
    THEN Result(Response(400, "Patient ID already exists", <<>>), d, FALSE)
    ELSE Result(Response(201, "Patient created successfully", <<>>),
                Store(d, body.id, model_dump(Patient(body))), TRUE)

\* for key, value in patient_update_dict.items(): existing[key] = value
Merge(existing, patch) ==
    [k \in DOMAIN existing \cup DOMAIN patch |->
        IF k \in DOMAIN patch THEN patch[k] ELSE existing[k]]

\* Patient(id=patient_id, **existing_patient_info)
WithId(id, info) ==
    [k \in DOMAIN info \cup {"id"} |-> IF k = "id" THEN id ELSE info[k]]

\* update_patient that stores the merged dict as it is, derived fields stale
update_patient_stale(d, id, body) ==
    IF ~PatientUpdateValid(body) THEN Unprocessable(d)
    ELSE IF ~Has(d, id)
    THEN Result(Response(404, "Patient not found", <<>>), d, FALSE)
    ELSE LET merged == Merge(Lookup(d, id), PatientUpdateDump(body))
             mutated == Store(d, id, merged)
         IN  IF ~PatientValid(WithId(id, merged)) THEN InternalError(mutated)
             ELSE Result(Response(200, "Patient updated successfully", <<>>), mutated, TRUE)

\* update_patient that saves the merged dict before it validates it
update_patient_save_first(d, id, body) ==
    IF ~PatientUpdateValid(body) THEN Unprocessable(d)
    ELSE IF ~Has(d, id)
    THEN Result(Response(404, "Patient not found", <<>>), d, FALSE)
    ELSE LET merged == Merge(Lookup(d, id), PatientUpdateDump(body))
             mutated == Store(d, id, merged)
         IN  IF ~PatientValid(WithId(id, merged))
             THEN Result(Response(500, "Internal Server Error", <<>>), mutated, TRUE)
             ELSE Result(Response(200, "Patient updated successfully", <<>>),
                         Store(mutated, id, model_dump(Patient(WithId(id, merged)))),
                         TRUE)

update_patient(d, id, body) ==
    IF ~PatientUpdateValid(body) THEN Unprocessable(d)
    ELSE IF ~Has(d, id)
    THEN Result(Response(404, "Patient not found", <<>>), d, FALSE)
    ELSE LET merged == Merge(Lookup(d, id), PatientUpdateDump(body))
             mutated == Store(d, id, merged)
         IN  IF ~PatientValid(WithId(id, merged)) THEN InternalError(mutated)
             ELSE Result(Response(200, "Patient updated successfully", <<>>),
                         Store(mutated, id, model_dump(Patient(WithId(id, merged)))),
                         TRUE)

delete_patient(d, id) ==
    IF ~Has(d, id)
    THEN Result(Response(404, "Patient not found", <<>>), d, FALSE)
    ELSE Result(Response(200, "Patient deleted successfully", <<>>), Remove(d, id), TRUE)

view_patient(d, id) ==
    IF Has(d, id) THEN Result(Response(200, "", <<Lookup(d, id)>>), d, FALSE)
    ELSE Result(Response(404, "patient not found", <<>>), d, FALSE)

valid_fields == {"height", "weight", "bmi"}

sort_patients(d, sort_by, order) ==
    IF sort_by \notin valid_fields
    THEN Result(Response(400, "Invalid sort_by field", <<>>), d, FALSE)
    ELSE IF order \notin {"asc", "desc"}
    THEN Result(Response(400, "Invalid order", <<>>), d, FALSE)
    ELSE Result(Response(200, "", sorted(Values(d), sort_by, order = "desc")), d, FALSE)

\* the handler a request is routed to
Handle(d, q) ==
    CASE q.op = "create" -> create_patient(d, q.body)
      [] q.op = "update" -> update_patient(d, q.id, q.body)
      [] q.op = "delete" -> delete_patient(d, q.id)
      [] q.op = "get" -> view_patient(d, q.id)
      [] q.op = "sort" -> sort_patients(d, q.sort_by, q.order)

\* ---------------------------------------------------------------- requests
\* what a client sends as bmi and verdict; no sampled record derives them
ClientDerived == [bmi |-> 1, verdict |-> "Healthy"]

BaseBody ==
    [id |-> "P001", name |-> "Asha", city |-> "Pune", age |-> 30, gender |-> Male,
     height |-> 170, weight |-> 72]

ValidBodies ==
    {[BaseBody EXCEPT !.id = i, !.height = h, !.weight = w] :
        i \in Ids, h \in Heights, w \in Weights}

WithDerived(b) ==
    [k \in DOMAIN b \cup {"bmi", "verdict"} |->
        IF k \in {"bmi", "verdict"} THEN ClientDerived[k] ELSE b[k]]

Without(b, k) == [j \in DOMAIN b \ {k} |-> b[j]]

OddBodies ==
    {[BaseBody EXCEPT !.age = a] : a \in {0, 150}}
    \cup {[BaseBody EXCEPT !.gender = g] : g \in {male, MALE, robot}}
    \cup {[BaseBody EXCEPT !.height = 0], [BaseBody EXCEPT !.weight = 0],
          [BaseBody EXCEPT !.name = ""],
          [BaseBody EXCEPT !.id = "", !.gender = Female, !.height = 200, !.weight = 80]}
    \cup {WithDerived(BaseBody), WithDerived([BaseBody EXCEPT !.id = ""])}
    \cup {Without(BaseBody, "name")}

CreateBodies == ValidBodies \cup OddBodies

Field(k, v) == [j \in {k} |-> v]
Both(a, b) == Merge(a, b)

Patches ==
    {<<>>}
    \cup {Field("weight", w) : w \in Weights \cup {0}}
    \cup {Field("height", h) : h \in Heights \cup {0}}
    \cup {Field("age", a) : a \in {0, 31, 150}}
    \cup {Field("name", "Asha")}
    \cup {Field("gender", g) : g \in {Male, male, robot}}
    \cup {Both(Field("gender", Male), Field("weight", w)) : w \in Weights}
    \cup {Both(Field("gender", Male), Field("height", h)) : h \in Heights}
    \cup {Both(Field("gender", Male), WithDerived(Field("weight", w))) : w \in Weights}
    \cup {WithDerived(Field("weight", 80))}

SortArgs ==
    {<<f, o>> : f \in valid_fields, o \in {"asc", "desc"}} \cup {<<"age", "asc">>, <<"bmi", "up">>}

\* ------------------------------------------------- sequential specification
Workers == {"w1", "w2"}

NoRequest == [op |-> "none"]
NoResponse == Response(0, "", <<>>)

Init ==
    /\ file = <<>>
    /\ request = NoRequest
    /\ resp = NoResponse
    /\ pc = [w \in Workers |-> "idle"]
    /\ req = [w \in Workers |-> NoRequest]
    /\ data = [w \in Workers |-> <<>>]
    /\ out = [w \in Workers |-> NoResponse]
    /\ racedWith = [w \in Workers |-> {}]

\* Each action is one request handled from load_data to the response, with
\* nothing in between.
Create ==
    \E b \in CreateBodies :
        LET r == create_patient(file, b)
        IN  /\ request' = [op |-> "create", body |-> b]
            /\ resp' = r.resp
            /\ file' = IF r.save THEN r.data ELSE file
            /\ UNCHANGED <<pc, req, data, out, racedWith>>

Update ==
    \E i \in Ids, p \in Patches :
        LET r == update_patient(file, i, p)
        IN  /\ request' = [op |-> "update", id |-> i, body |-> p]
            /\ resp' = r.resp
            /\ file' = IF r.save THEN r.data ELSE file
            /\ UNCHANGED <<pc, req, data, out, racedWith>>

Delete ==
    \E i \in Ids :
        LET r == delete_patient(file, i)
        IN  /\ request' = [op |-> "delete", id |-> i]
            /\ resp' = r.resp
            /\ file' = IF r.save THEN r.data ELSE file
            /\ UNCHANGED <<pc, req, data, out, racedWith>>

GetById ==
    \E i \in Ids :
        LET r == view_patient(file, i)
        IN  /\ request' = [op |-> "get", id |-> i]
            /\ resp' = r.resp
            /\ UNCHANGED <<file, pc, req, data, out, racedWith>>

Sort ==
    \E a \in SortArgs :
        LET r == sort_patients(file, a[1], a[2])
        IN  /\ request' = [op |-> "sort", sort_by |-> a[1], order |-> a[2]]
            /\ resp' = r.resp
            /\ UNCHANGED <<file, pc, req, data, out, racedWith>>

Next == Create \/ Update \/ Delete \/ GetById \/ Sort

Spec == Init /\ [][Next]_vars

\* ------------------------------------------------- read-only specification
\* The collection is one that Create requests built; only Get-by-id and
\* Sort run.  Longer collections and a wide range of weights fit here.
ReadIdOf == <<"P001", "P002", "P003", "P004", "P005">>
ReadIds == {ReadIdOf[i] : i \in 1 .. (MaxSortLen + 1)}
BmiHeights == {170, 180, 190, 200}
BmiWeights == {40 + i : i \in 0 .. (NumBmiWeights - 1)}

\* the collection after create_patient ran on each body in turn
RECURSIVE Created(_)
Created(bodies) ==
    IF bodies = <<>> THEN <<>>
    ELSE create_patient(Created(SubSeq(bodies, 1, Len(bodies) - 1)),
                        bodies[Len(bodies)]).data

SortBodies(n) ==
    {[i \in 1 .. n |-> [BaseBody EXCEPT !.id = ReadIdOf[i], !.name = t[i][1],
                                        !.height = t[i][2], !.weight = t[i][3]]] :
        t \in [1 .. n -> {"Asha", "Ravi"} \X Heights \X {72, 80}]}

BmiBodies ==
    {<<[BaseBody EXCEPT !.height = h, !.weight = w]>> : h \in BmiHeights, w \in BmiWeights}

InitRead ==
    /\ file \in {Created(b) : b \in UNION {SortBodies(n) : n \in 0 .. MaxSortLen} \cup BmiBodies}
    /\ request = NoRequest
    /\ resp = NoResponse
    /\ pc = [w \in Workers |-> "idle"]
    /\ req = [w \in Workers |-> NoRequest]
    /\ data = [w \in Workers |-> <<>>]
    /\ out = [w \in Workers |-> NoResponse]
    /\ racedWith = [w \in Workers |-> {}]

ReadGet ==
    \E i \in ReadIds :
        LET r == view_patient(file, i)
        IN  /\ request' = [op |-> "get", id |-> i]
            /\ resp' = r.resp
            /\ UNCHANGED <<file, pc, req, data, out, racedWith>>

NextRead == ReadGet \/ Sort

SpecRead == InitRead /\ [][NextRead]_vars

\* ------------------------------------------------- concurrent specification
\* Two workers serve write requests.  load_data and save_data are the only
\* accesses to the file and nothing orders one worker's against the other's.
RacingRequests ==
    {[op |-> "create", body |-> b] :
        b \in {BaseBody, [BaseBody EXCEPT !.weight = 80], [BaseBody EXCEPT !.id = ""],
               [BaseBody EXCEPT !.age = 0]}}
    \cup {[op |-> "update", id |-> "P001",
           body |-> Both(Field("gender", Male), Field("weight", 80))]}
    \cup {[op |-> "delete", id |-> i] : i \in Ids}

\* the body passes the framework's validation, so the handler is entered
Accepted(q) ==
    CASE q.op = "create" -> PatientValid(q.body)
      [] q.op = "update" -> PatientUpdateValid(q.body)
      [] OTHER -> TRUE

\* a request whose body is refused never reaches the handler
Refuse(w) ==
    \E q \in RacingRequests :
        /\ pc[w] = "idle"
        /\ ~Accepted(q)
        /\ pc' = [pc EXCEPT ![w] = "done"]
        /\ req' = [req EXCEPT ![w] = q]
        /\ out' = [out EXCEPT ![w] = Handle(<<>>, q).resp]
        /\ UNCHANGED <<file, request, resp, data, racedWith>>

\* data = load_data(), the first statement of every write handler
Load(w) ==
    \E q \in RacingRequests :
        /\ pc[w] = "idle"
        /\ Accepted(q)
        /\ pc' = [pc EXCEPT ![w] = "loaded"]
        /\ req' = [req EXCEPT ![w] = q]
        /\ data' = [data EXCEPT ![w] = file]
        /\ UNCHANGED <<file, request, resp, out, racedWith>>

\* Finish behind a lock held since before load_data: it works on the file as it is
FinishLocked(w) ==
    /\ pc[w] = "loaded"
    /\ LET r == Handle(file, req[w])
       IN  /\ out' = [out EXCEPT ![w] = r.resp]
           /\ file' = IF r.save THEN r.data ELSE file
    /\ pc' = [pc EXCEPT ![w] = "done"]
    /\ racedWith' = [racedWith EXCEPT ![w] = {v \in Workers \ {w} : pc[v] = "loaded"}]
    /\ UNCHANGED <<request, resp, req, data>>

\* the rest of the handler: the checks and the mutation on the loaded dict,
\* save_data(data) unless an exception left the handler, and the response
Finish(w) ==
    /\ pc[w] = "loaded"
    /\ LET r == Handle(data[w], req[w])
       IN  /\ out' = [out EXCEPT ![w] = r.resp]
           /\ file' = IF r.save THEN r.data ELSE file
    /\ pc' = [pc EXCEPT ![w] = "done"]
    /\ racedWith' = [racedWith EXCEPT ![w] = {v \in Workers \ {w} : pc[v] = "loaded"}]
    /\ UNCHANGED <<request, resp, req, data>>

\* the worker is free for the next request
Release(w) ==
    /\ pc[w] = "done"
    /\ pc' = [pc EXCEPT ![w] = "idle"]
    /\ req' = [req EXCEPT ![w] = NoRequest]
    /\ data' = [data EXCEPT ![w] = <<>>]
    /\ out' = [out EXCEPT ![w] = NoResponse]
    /\ racedWith' = [v \in Workers |-> IF v = w THEN {} ELSE racedWith[v] \ {w}]
    /\ UNCHANGED <<file, request, resp>>

NextRacing == \E w \in Workers : Refuse(w) \/ Load(w) \/ Finish(w) \/ Release(w)

SpecRacing == Init /\ [][NextRacing]_vars

\* ----------------------------------------------------- claims: vocabulary
\* b hundredths is a nearest hundredth of weight / height^2 (height in cm)
NearestHundredth(b, height, weight) ==
    LET diff == b * height * height - weight * 1000000
    IN  2 * (IF diff < 0 THEN -diff ELSE diff) <= height * height

\* the threshold table of the verdict, bmi in hundredths
Bucket(b) ==
    CASE b < 1850 -> "Underweight"
      [] 1850 <= b /\ b < 2490 -> "Normal weight"
      [] 2490 <= b /\ b < 2500 -> "Obesity"
      [] 2500 <= b /\ b < 2990 -> "Overweight"
      [] b >= 2990 -> "Obesity"

Stored == {file[i].rec : i \in 1 .. Len(file)}
StoredIds == {file[i].id : i \in 1 .. Len(file)}
LowerGenders == {male, female, other}
Succeeded(r) == r.status \in {200, 201}

\* ------------------------------------------------------------------- C1
\* C1 (as claimed): an Update of a stored record whose patch holds only a
\* valid weight succeeds; afterwards bmi and verdict are derived from the new
\* weight and the old height, and name, city, age, gender, height are as
\* they were stored.
C1_WeightOnlyUpdate ==
    [][(/\ request'.op = "update"
        /\ DOMAIN request'.body = {"weight"}
        /\ request'.body.weight > 0
        /\ Has(file, request'.id))
       => /\ resp'.status = 200
          /\ Has(file', request'.id)
          /\ LET old == Lookup(file, request'.id)
                 new == Lookup(file', request'.id)
             IN  /\ new.weight = request'.body.weight
                 /\ NearestHundredth(new.bmi, old.height, request'.body.weight)
                 /\ new.verdict = Bucket(new.bmi)
                 /\ \A k \in {"name", "city", "age", "gender", "height"} : new[k] = old[k]]_vars

\* ------------------------------------------------------------------- C2
\* C2: every stored record has bmi = round(weight / height^2, 2) of its own
\* height and weight and the verdict of that bmi, whatever bmi or verdict a
\* client sent in a Create body or an Update patch.
C2_DerivedFieldsRecomputed ==
    \A r \in Stored :
        /\ NearestHundredth(r.bmi, r.height, r.weight)
        /\ r.verdict = Bucket(r.bmi)
        /\ r.bmi # ClientDerived.bmi
        /\ r.verdict # ClientDerived.verdict

\* a write that carried a client's bmi and verdict succeeded
C2_Witness ==
    /\ request.op \in {"create", "update"}
    /\ {"bmi", "verdict"} \subseteq DOMAIN request.body
    /\ Succeeded(resp)
    /\ Len(file) = 2

\* ------------------------------------------------------------------- C3
\* C3 (as claimed): every key is a non-empty id and every stored value has
\* non-empty name and city, 0 < age < 150, a gender of {male, female,
\* other}, height > 0 and weight > 0.
C3_RecordConstraints ==
    /\ \A i \in StoredIds : i # ""
    /\ \A r \in Stored :
        /\ r.name # "" /\ r.city # ""
        /\ r.age > 0 /\ r.age < 150
        /\ r.gender \in LowerGenders
        /\ r.height > 0 /\ r.weight > 0

\* C3 (amended): every stored value has 0 < age < 150, a gender of {male,
\* female, other}, height > 0 and weight > 0; ids, names and cities are
\* strings, the empty string included.
C3_NumericAndGenderConstraints ==
    \A r \in Stored :
        /\ r.age > 0 /\ r.age < 150
        /\ r.gender \in LowerGenders
        /\ r.height > 0 /\ r.weight > 0

\* a record is stored and a body with an age out of range was just refused
C3_Witness ==
    /\ request.op = "create"
    /\ "age" \in DOMAIN request.body
    /\ request.body.age = 0
    /\ resp.status = 422
    /\ Len(file) = 2

\* ------------------------------------------------------------------- C4
\* C4: Create with a valid record whose id is already a key fails with 400
\* and leaves the persisted collection as it was.
C4_DuplicateCreate ==
    [][(/\ request'.op = "create"
        /\ PatientValid(request'.body)
        /\ Has(file, request'.body.id))
       => /\ resp'.status = 400
          /\ resp'.message = "Patient ID already exists"
          /\ file' = file]_vars

\* a duplicate Create of a body that differs from the stored record was refused
C4_Witness ==
    /\ request.op = "create"
    /\ resp.status = 400
    /\ Len(file) = 2
    /\ Lookup(file, request.body.id).weight # request.body.weight

\* ------------------------------------------------------------------- C5
\* C5 (as claimed): a Create whose gender is male, female or other in any
\* letter case, all else valid and the id new, is accepted and stores the
\* gender in lower case.
C5_GenderAnyCase ==
    [][(/\ request'.op = "create"
        /\ PatientFields \subseteq DOMAIN request'.body
        /\ request'.body.age > 0 /\ request'.body.age < 150
        /\ request'.body.height > 0 /\ request'.body.weight > 0
        /\ transform_name(request'.body.gender) \in LowerGenders
        /\ ~Has(file, request'.body.id))
       => /\ resp'.status = 201
          /\ Has(file', request'.body.id)
          /\ Lookup(file', request'.body.id).gender = transform_name(request'.body.gender)]_vars

\* ------------------------------------------------------------------- C6
\* C6: a Delete or Update of an id that is no key fails with 404, and every
\* operation that fails (404, 400, a rejected body, or the merged record
\* failing validation inside Update) leaves the persisted collection as it
\* was.
C6_FailuresLeaveCollection ==
    [][/\ (request'.op \in {"update", "delete"} /\ ~Has(file, request'.id)
             /\ (request'.op = "update" => PatientUpdateValid(request'.body)))
          => resp'.status = 404
       /\ ~Succeeded(resp') => file' = file]_vars

\* an Update whose merged record failed validation, on a patch that changes
\* the stored weight
C6_Witness ==
    /\ request.op = "update"
    /\ resp.status = 500
    /\ DOMAIN request.body = {"weight"}
    /\ Has(file, request.id)
    /\ Lookup(file, request.id).weight # request.body.weight

\* ------------------------------------------------------------------- C7
\* C7 (as claimed): Get-by-id right after a successful Create returns name,
\* city, age, gender, height and weight as submitted.
C7_RoundTripAsSubmitted ==
    [][(/\ request.op = "create" /\ resp.status = 201
        /\ request'.op = "get" /\ request'.id = request.body.id)
       => /\ resp'.status = 200
          /\ \A k \in UpdateFields : resp'.records[1][k] = request.body[k]]_vars

\* C7 (amended): Get-by-id right after a successful Create returns name,
\* city, age, height and weight as submitted, and the submitted gender in
\* lower case.
C7_RoundTripGenderLowered ==
    [][(/\ request.op = "create" /\ resp.status = 201
        /\ request'.op = "get" /\ request'.id = request.body.id)
       => /\ resp'.status = 200
          /\ \A k \in UpdateFields \ {"gender"} : resp'.records[1][k] = request.body[k]
          /\ resp'.records[1].gender \in LowerGenders
          /\ Len(resp'.records[1].gender) = Len(request.body.gender)
          /\ \A i \in 1 .. Len(request.body.gender) :
                resp'.records[1].gender[i] = LowerChar(request.body.gender[i])]_vars

\* a Get returned the record that only a Create can have stored
C7_Witness ==
    /\ request.op = "get"
    /\ resp.status = 200
    /\ resp.records[1].gender = female

\* ------------------------------------------------------------------- C8
\* C8: the verdict depends on the rounded bmi alone: under 18.5 Underweight,
\* from 18.5 and under 24.9 Normal weight, from 25 and under 29.9
\* Overweight, and Obesity for the rest, [24.9, 25) and 29.9 upwards.
C8_VerdictThresholds ==
    /\ \A r \in Stored :
        /\ r.bmi < 1850 => r.verdict = "Underweight"
        /\ (1850 <= r.bmi /\ r.bmi < 2490) => r.verdict = "Normal weight"
        /\ (2500 <= r.bmi /\ r.bmi < 2990) => r.verdict = "Overweight"
        /\ (2490 <= r.bmi /\ r.bmi < 2500) => r.verdict = "Obesity"
        /\ r.bmi >= 2990 => r.verdict = "Obesity"
    /\ \A r1, r2 \in Stored : r1.bmi = r2.bmi => r1.verdict = r2.verdict

\* a stored record whose bmi lies in the gap [24.9, 25)
C8_Witness ==
    \E r \in Stored : 2490 <= r.bmi /\ r.bmi < 2500 /\ r.verdict = "Obesity"

\* ------------------------------------------------------------------- C9
\* C9: Sort by height, weight or bmi, asc or desc, returns every record of
\* the collection exactly once, ordered by that field, records with equal
\* values in the order of the collection, asc and desc alike.
C9_SortStable ==
    (/\ request.op = "sort"
     /\ request.sort_by \in {"height", "weight", "bmi"}
     /\ request.order \in {"asc", "desc"})
    => /\ resp.status = 200
       /\ Len(resp.records) = Len(file)
       /\ \E p \in Permutations(1 .. Len(file)) :
            /\ \A i \in 1 .. Len(file) : resp.records[i] = file[p[i]].rec
            /\ \A i, j \in 1 .. Len(file) :
                i < j =>
                    LET a == resp.records[i][request.sort_by]
                        b == resp.records[j][request.sort_by]
                    IN  /\ request.order = "asc" => a <= b
                        /\ request.order = "desc" => a >= b
                        /\ a = b => p[i] < p[j]

\* a descending Sort of three records, two of them different and equal in
\* the sort field
C9_Witness ==
    /\ request.op = "sort"
    /\ request.order = "desc"
    /\ resp.status = 200
    /\ Len(resp.records) = 3
    /\ \E i, j \in 1 .. 3 :
        /\ i < j
        /\ resp.records[i][request.sort_by] = resp.records[j][request.sort_by]
        /\ resp.records[i] # resp.records[j]

\* ------------------------------------------------------------------ C10
\* C10: when two write operations both load before either saves, each
\* answers as its handler does on the collection it loaded, and once both
\* have succeeded the file is what the one that saved last made of the
\* collection it had loaded: the entry of the other one's id is as it was
\* loaded, the other one's change is not in the file.
WriteId(q) == IF q.op = "create" THEN q.body.id ELSE q.id

C10_LastSaveWins ==
    \A w, v \in Workers :
        (/\ w # v
         /\ pc[w] = "done" /\ pc[v] = "done"
         /\ v \in racedWith[w]
         /\ Succeeded(out[w]) /\ Succeeded(out[v]))
        => /\ out[v] = Handle(data[v], req[v]).resp
           /\ file = Handle(data[v], req[v]).data
           /\ WriteId(req[w]) # WriteId(req[v])
                => /\ Has(file, WriteId(req[w])) = Has(data[v], WriteId(req[w]))
                   /\ Has(file, WriteId(req[w]))
                        => Lookup(file, WriteId(req[w])) = Lookup(data[v], WriteId(req[w]))

\* two Creates of different ids raced, both answered 201, and the file holds
\* one record
C10_Witness ==
    \E w, v \in Workers :
        /\ w # v
        /\ pc[w] = "done" /\ pc[v] = "done"
        /\ v \in racedWith[w]
        /\ req[w].op = "create" /\ req[v].op = "create"
        /\ out[w].status = 201 /\ out[v].status = 201
        /\ WriteId(req[w]) # WriteId(req[v])
        /\ Len(file) = 1

====
